---------------------------- MODULE Spec2Model ----------------------------
(***************************************************************************)
(* Model of scripts/debug-shm.py: the decoder of the pipewire-volume-mixer *)
(* shared-memory snapshot.  parse_shared_memory is a linear forward scan   *)
(* over an immutable byte buffer; read_string is its length-prefixed       *)
(* string helper.                                                          *)
(*                                                                         *)
(* Conventions.  A buffer is a sequence of bytes 0..255; Python's 0-based  *)
(* offset o is element o+1 of the sequence.  TLC integers are 32-bit, so   *)
(* an unsigned 32-bit field is kept as its two 16-bit limbs <<lo, hi>> and *)
(* an unsigned 64-bit field as four limbs, least significant first.  A     *)
(* decoded string is the sequence of its code points.                      *)
(***************************************************************************)
EXTENDS Integers, Sequences, FiniteSets, TLC

VARIABLES
    data,        \* the bytes read from the file (line 27)
    built,       \* how the producer assembled `data` (input description)
    pc,          \* position in parse_shared_memory
    offset,      \* the cursor `offset`
    header,      \* <<version, generation, timestamp>> once unpacked, else <<>>
    sink_count,  \* <<lo, hi>> once unpacked, else <<>>
    app_count,   \* <<lo, hi>> once unpacked, else <<>>
    sinks,       \* records printed by line 73, in order
    apps,        \* records printed by line 105, in order
    out,         \* the diagnostics and section headings printed, in order
    reads,       \* every 0-based byte index asked of `data` so far
    sinkIters,   \* iterations of the sink loop started
    appIters,    \* iterations of the app loop started
    sinkBroke,   \* the sink loop left through a break
    appBroke,    \* the app loop left through a break
    raised       \* an exception reached the handler of line 112

vars == <<data, built, pc, offset, header, sink_count, app_count, sinks, apps,
          out, reads, sinkIters, appIters, sinkBroke, appBroke, raised>>

---------------------------------------------------------------------------
(* Byte-level helpers: what struct.unpack, indexing and slicing do.        *)

Min(a, b) == IF a < b THEN a ELSE b

\* data[a:b] of Python: clamped to the buffer, never raising.
Slice(d, a, b) == SubSeq(d, a + 1, Min(b, Len(d)))

\* The indices a slice or an unpack of data[a:b] asks for.
Span(a, b) == a .. (b - 1)

\* struct.unpack('<I', bs)[0] of a 4-byte slice, as limbs <<lo, hi>>.
UnpackU32(bs) == <<bs[1] + 256 * bs[2], bs[3] + 256 * bs[4]>>

\* struct.unpack('<f', bs)[0]: the float is determined by its 32 bits, which
\* are kept as limbs (Python widens the float32 to a double exactly).
UnpackF32(bs) == <<bs[1] + 256 * bs[2], bs[3] + 256 * bs[4]>>

\* struct.unpack('<Q', bs)[0] of an 8-byte slice, as four limbs.
UnpackU64(bs) ==
    <<bs[1] + 256 * bs[2], bs[3] + 256 * bs[4],
      bs[5] + 256 * bs[6], bs[7] + 256 * bs[8]>>

\* struct.unpack raises struct.error unless the slice has the exact size.
UnpackRaises(bs, size) == Len(bs) # size

\* Faulty variant: range(n + 1).
InRangeInclusive(i, n) == n[2] > 0 \/ i <= n[1]

\* i < n for a small index i and a 32-bit count n: range(n) still has an
\* i-th element.
InRange(i, n) == n[2] > 0 \/ i < n[1]

\* datetime.MAXYEAR: 253402300800000 ms is 10000-01-01T00:00:00 UTC, the
\* first timestamp datetime.fromtimestamp refuses (ValueError).
MaxTimestampMs == <<56320, 53791, 58999, 0>>

RECURSIVE LimbsLess(_, _, _)
LimbsLess(a, b, k) ==
    IF k = 0 THEN FALSE
    ELSE IF a[k] # b[k] THEN a[k] < b[k]
    ELSE LimbsLess(a, b, k - 1)

\* datetime.fromtimestamp(timestamp/1000) of line 42 returns (does not raise).
TimestampFormats(ts) == LimbsLess(ts, MaxTimestampMs, 4)

---------------------------------------------------------------------------
(* bytes.decode('utf-8', errors=...): CPython's decoder.  A malformed      *)
(* sequence is the longest prefix of a well-formed one (or one byte); the  *)
(* handler 'ignore' yields nothing for it, 'replace' yields U+FFFD.        *)

ReplacementChar == 65533

OnError(errors) == IF errors = "replace" THEN <<ReplacementChar>> ELSE <<>>

IsCont(bs, k) == k <= Len(bs) /\ bs[k] \in 128..191

\* The second byte's legal range after lead byte b (no overlongs, no
\* surrogates, nothing above U+10FFFF).
SecondOk(bs, k, b) ==
    /\ k <= Len(bs)
    /\ bs[k] >= (IF b = 224 THEN 160 ELSE IF b = 240 THEN 144 ELSE 128)
    /\ bs[k] <= (IF b = 237 THEN 159 ELSE IF b = 244 THEN 143 ELSE 191)

RECURSIVE Utf8DecodeFrom(_, _, _)
Utf8DecodeFrom(bs, k, errors) ==
    IF k > Len(bs) THEN <<>>
    ELSE LET b == bs[k] IN
      IF b < 128 THEN <<b>> \o Utf8DecodeFrom(bs, k + 1, errors)
      ELSE IF b \in 194..223 THEN
        IF IsCont(bs, k + 1)
        THEN <<(b - 192) * 64 + (bs[k + 1] - 128)>>
                 \o Utf8DecodeFrom(bs, k + 2, errors)
        ELSE OnError(errors) \o Utf8DecodeFrom(bs, k + 1, errors)
      ELSE IF b \in 224..239 THEN
        IF ~SecondOk(bs, k + 1, b)
        THEN OnError(errors) \o Utf8DecodeFrom(bs, k + 1, errors)
        ELSE IF ~IsCont(bs, k + 2)
        THEN OnError(errors) \o Utf8DecodeFrom(bs, k + 2, errors)
        ELSE <<(b - 224) * 4096 + (bs[k + 1] - 128) * 64 + (bs[k + 2] - 128)>>
                 \o Utf8DecodeFrom(bs, k + 3, errors)
      ELSE IF b \in 240..244 THEN
        IF ~SecondOk(bs, k + 1, b)
        THEN OnError(errors) \o Utf8DecodeFrom(bs, k + 1, errors)
        ELSE IF ~IsCont(bs, k + 2)
        THEN OnError(errors) \o Utf8DecodeFrom(bs, k + 2, errors)
        ELSE IF ~IsCont(bs, k + 3)
        THEN OnError(errors) \o Utf8DecodeFrom(bs, k + 3, errors)
        ELSE <<(b - 240) * 262144 + (bs[k + 1] - 128) * 4096
                 + (bs[k + 2] - 128) * 64 + (bs[k + 3] - 128)>>
                 \o Utf8DecodeFrom(bs, k + 4, errors)
      ELSE OnError(errors) \o Utf8DecodeFrom(bs, k + 1, errors)

Utf8Decode(bs, errors) == Utf8DecodeFrom(bs, 1, errors)

---------------------------------------------------------------------------
(* The decoder's guards and conversions, one definition per source test.   *)

\* Faulty variant: only the 20 interpreted header bytes are required.
HeaderFitsFieldsOnly(d) == ~(Len(d) < 20)

\* line 29: the buffer can hold the 32-byte header.
HeaderFits(d) == ~(Len(d) < 32)

\* line 9: the length byte is inside the buffer.
LengthByteFits(d, off) == ~(off >= Len(d))

\* Faulty variants: the payload may end one byte past the buffer; no check at all.
PayloadFitsOffByOne(d, off, length) == ~(off + length > Len(d) + 1)

PayloadUnchecked(d, off, length) == TRUE

\* line 15: the announced payload is inside the buffer.
PayloadFits(d, off, length) == ~(off + length > Len(d))

\* Faulty variant: errors='replace'.
DecodeReplace == "replace"

\* line 18: the error handler handed to bytes.decode.
DecodeErrors == "ignore"

\* Faulty variant: the count must be followed by at least one byte.
SinkCountFitsStrict(d, off) == ~(off + 4 >= Len(d))

\* lines 48 and 78: the 4-byte count is inside the buffer.
SinkCountFits(d, off) == ~(off + 4 > Len(d))

AppCountFits(d, off) == ~(off + 4 > Len(d))

\* line 61: id, volume and muted (9 bytes) are inside the buffer.
SinkTailFits(d, off) == ~(off + 9 > Len(d))

\* line 97: the active byte is inside the buffer.
ActiveFits(d, off) == ~(off >= Len(d))

\* lines 70 and 101: a flag byte is true only when it is 1.
FlagByte(b) == b = 1

\* Faulty variant: the cursor is left on the flag byte.
SkipFlagStuck(off) == off

\* lines 71 and 102: offset += 1 past the flag byte.
SkipFlag(off) == off + 1

\* The outcome of a step that could not complete a record or field.
NoValue(off, rd, exc) ==
    [ok |-> FALSE, exc |-> exc, offset |-> off, reads |-> rd]

\* lines 7-21.  ok = FALSE is the (None, offset) return; exc = TRUE is an
\* IndexError of data[offset].
read_string(d, off) ==
    IF ~LengthByteFits(d, off) THEN NoValue(off, {}, FALSE)
    ELSE IF off >= Len(d) THEN NoValue(off, {off}, TRUE)
    ELSE LET length == d[off + 1]
             o      == off + 1
         IN IF ~PayloadFits(d, o, length) THEN NoValue(o, {off}, FALSE)
            ELSE [ok     |-> TRUE,
                  exc    |-> FALSE,
                  str    |-> Utf8Decode(Slice(d, o, o + length), DecodeErrors),
                  offset |-> o + length,
                  reads  |-> {off} \cup Span(o, o + length)]

\* F(v), with v evaluated once.
Bind(v, F(_)) == CHOOSE r \in {F(x) : x \in {v}} : TRUE

\* lines 58-73: the sink iteration once read_string has returned s.
SinkAfterName(d, s) ==
    IF ~s.ok THEN s
    ELSE IF ~SinkTailFits(d, s.offset) THEN NoValue(s.offset, s.reads, FALSE)
    ELSE LET o  == s.offset
             rd == s.reads \cup Span(o, o + 9)
         IN IF \/ UnpackRaises(Slice(d, o, o + 4), 4)
               \/ UnpackRaises(Slice(d, o + 4, o + 8), 4)
               \/ o + 8 >= Len(d)
            THEN NoValue(o, rd, TRUE)
            ELSE [ok     |-> TRUE,
                  exc    |-> FALSE,
                  rec    |-> [name   |-> s.str,
                              id     |-> UnpackU32(Slice(d, o, o + 4)),
                              volume |-> UnpackF32(Slice(d, o + 4, o + 8)),
                              muted  |-> FlagByte(d[o + 9])],
                  offset |-> SkipFlag(o + 8),
                  reads  |-> rd]

\* lines 57-73: one iteration of the sink loop from cursor off.  ok = FALSE
\* is a break; exc = TRUE is a struct.error or IndexError.
ParseSink(d, off) ==
    Bind(read_string(d, off), LAMBDA s : SinkAfterName(d, s))

\* lines 94-105: the app iteration once read_string has returned the name n
\* and the current sink c.
AppAfterStrings(d, n, c) ==
    LET rd == n.reads \cup c.reads IN
    IF ~c.ok THEN NoValue(c.offset, rd, c.exc)
    ELSE IF ~ActiveFits(d, c.offset) THEN NoValue(c.offset, rd, FALSE)
    ELSE IF c.offset >= Len(d)
    THEN NoValue(c.offset, rd \cup {c.offset}, TRUE)
    ELSE [ok     |-> TRUE,
          exc    |-> FALSE,
          rec    |-> [name         |-> n.str,
                      current_sink |-> c.str,
                      active       |-> FlagByte(d[c.offset + 1])],
          offset |-> SkipFlag(c.offset),
          reads  |-> rd \cup {c.offset}]

\* lines 88-93: the app iteration once read_string has returned the name n.
AppAfterName(d, n) ==
    IF ~n.ok THEN n
    ELSE Bind(read_string(d, n.offset), LAMBDA c : AppAfterStrings(d, n, c))

\* lines 87-105: one iteration of the app loop from cursor off.
ParseApp(d, off) ==
    Bind(read_string(d, off), LAMBDA n : AppAfterName(d, n))

\* lines 52 and 82: the count at the cursor.
ReadCount(d, off) ==
    IF UnpackRaises(Slice(d, off, off + 4), 4)
    THEN NoValue(off, Span(off, off + 4), TRUE)
    ELSE [ok     |-> TRUE,
          exc    |-> FALSE,
          count  |-> UnpackU32(Slice(d, off, off + 4)),
          offset |-> off + 4,
          reads  |-> Span(off, off + 4)]

\* lines 34-36: version, generation, timestamp at the fixed offsets 0, 4, 12.
ReadHeader(d) ==
    IF \/ UnpackRaises(Slice(d, 0, 4), 4)
       \/ UnpackRaises(Slice(d, 4, 12), 8)
       \/ UnpackRaises(Slice(d, 12, 20), 8)
    THEN NoValue(0, Span(0, 20), TRUE)
    ELSE [ok         |-> TRUE,
          exc        |-> FALSE,
          version    |-> UnpackU32(Slice(d, 0, 4)),
          generation |-> UnpackU64(Slice(d, 4, 12)),
          timestamp  |-> UnpackU64(Slice(d, 12, 20)),
          offset     |-> 32,
          reads      |-> Span(0, 20)]

---------------------------------------------------------------------------
(* The producer's side: the layout the buffers are assembled in.           *)

MaxSinks == 2    \* sink records a producer writes
MaxApps  == 1    \* app records a producer writes
MaxPad   == 2    \* zero bytes that may follow the last record

PackU32(v) == <<v[1] % 256, v[1] \div 256, v[2] % 256, v[2] \div 256>>

PackU64(v) == PackU32(<<v[1], v[2]>>) \o PackU32(<<v[3], v[4]>>)

RECURSIVE Utf8Encode(_)
Utf8Encode(cps) ==
    IF cps = <<>> THEN <<>>
    ELSE LET c == Head(cps)
             e == IF c < 128 THEN <<c>>
                  ELSE IF c < 2048 THEN <<192 + (c \div 64), 128 + (c % 64)>>
                  ELSE IF c < 65536
                  THEN <<224 + (c \div 4096), 128 + ((c \div 64) % 64), 128 + (c % 64)>>
                  ELSE <<240 + (c \div 262144), 128 + ((c \div 4096) % 64),
                         128 + ((c \div 64) % 64), 128 + (c % 64)>>
         IN e \o Utf8Encode(Tail(cps))

\* A name the producer wrote from a string, and a payload of arbitrary bytes.
Str(cps) == [pay |-> Utf8Encode(cps), wf |-> TRUE, str |-> cps]

\* `kept` is what CPython returns for bytes.decode('utf-8', 'ignore').
Raw(bytes, kept) == [pay |-> bytes, wf |-> FALSE, str |-> kept]

PackString(n) == <<Len(n.pay)>> \o n.pay

PackSink(s) ==
    PackString(s.name) \o PackU32(s.id) \o PackU32(s.volume) \o <<s.mbyte>>

PackApp(a) == PackString(a.name) \o PackString(a.current_sink) \o <<a.abyte>>

RECURSIVE PackSinks(_)
PackSinks(recs) ==
    IF recs = <<>> THEN <<>> ELSE PackSink(Head(recs)) \o PackSinks(Tail(recs))

RECURSIVE PackApps(_)
PackApps(recs) ==
    IF recs = <<>> THEN <<>> ELSE PackApp(Head(recs)) \o PackApps(Tail(recs))

PackHeader(b) ==
    PackU32(b.version) \o PackU64(b.generation) \o PackU64(b.timestamp)
        \o [k \in 1..12 |-> 0]

SinkSection(b) == PackU32(b.declSinks) \o PackSinks(b.sinks)

Assemble(b) ==
    PackHeader(b) \o SinkSection(b)
        \o PackU32(b.declApps) \o PackApps(b.apps)

\* The offset just past the k-th written sink record (k = 0: past the count).
SinkEnd(b, k) == 36 + Len(PackSinks(SubSeq(b.sinks, 1, k)))

Speakers == <<83, 112, 101, 97, 107, 101, 114, 115>>

Firefox == <<102, 105, 114, 101, 102, 111, 120>>

SinkChoices ==
    { [name |-> Str(Speakers), id |-> <<7, 0>>, volume |-> <<0, 16192>>,
       mbyte |-> 0],
      [name |-> Str(<<233>>), id |-> <<65535, 65535>>, volume |-> <<1, 32768>>,
       mbyte |-> 1],
      [name |-> Raw(<<65, 195, 255>>, <<65>>), id |-> <<258, 1>>, volume |-> <<0, 0>>,
       mbyte |-> 2] }

AppChoices ==
    { [name |-> Str(Firefox), current_sink |-> Str(Speakers), abyte |-> 1],
      [name |-> Str(<<8364>>), current_sink |-> Str(<<>>), abyte |-> 0],
      [name |-> Raw(<<226, 130>>, <<>>), current_sink |-> Raw(<<169, 66>>, <<66>>),
       abyte |-> 255] }

SeqsUpTo(S, n) == UNION { [1..k -> S] : k \in 0..n }

U32Max == <<65535, 65535>>

\* The count a producer declares for n records: the true one, one too many,
\* or the largest a 4-byte field holds.
Declared(n, how) ==
    IF how = "exact" THEN <<n, 0>>
    ELSE IF how = "plus1" THEN <<n + 1, 0>>
    ELSE U32Max

Now == <<26624, 53221, 395, 0>>       \* 1700000000000 ms

Far == <<65535, 65535, 65535, 65535>> \* 2^64 - 1 ms

Build(ss, as, hs, ha, ts) ==
    [version |-> <<1, 0>>, generation |-> <<42, 0, 0, 0>>, timestamp |-> ts,
     sinks |-> ss, apps |-> as,
     declSinks |-> Declared(Len(ss), hs), declApps |-> Declared(Len(as), ha),
     exact |-> hs = "exact" /\ ha = "exact"]

CountModes ==
    { <<"exact", "exact">>, <<"plus1", "exact">>, <<"max", "exact">>,
      <<"exact", "plus1">>, <<"exact", "max">> }

\* The lengths the file is read at: any cut of an exactly counted snapshot
\* (cuts inside the header for the empty one only: they all read alike),
\* and the whole snapshot with its padding otherwise.  A snapshot whose
\* timestamp datetime cannot show is read at every cut past its sink count:
\* its parse ends at line 42, whatever follows the header.
Lengths(b, m, ts) ==
    LET full == Len(Assemble(b)) IN
    IF ts = Far THEN IF m = <<"exact", "exact">> THEN 36..full ELSE {}
    ELSE IF m = <<"exact", "exact">>
    THEN (IF b.sinks = <<>> /\ b.apps = <<>> THEN 0..35 ELSE {})
             \cup 36..(full + MaxPad)
    ELSE full..(full + MaxPad)

\* The file's bytes: the assembled snapshot, zero padded, cut at n.
FileBytes(b, n) == SubSeq(Assemble(b) \o [k \in 1..MaxPad |-> 0], 1, n)

\* lines 26-27: the state once the file has been read.
Init ==
    /\ \E ss \in SeqsUpTo(SinkChoices, MaxSinks), as \in SeqsUpTo(AppChoices, MaxApps),
          m \in CountModes, ts \in {Now, Far} :
         LET b == Build(ss, as, m[1], m[2], ts) IN
         \E n \in Lengths(b, m, ts) :
            /\ built = b
            /\ data = FileBytes(b, n)
    /\ pc = "start"
    /\ offset = 0
    /\ header = <<>>
    /\ sink_count = <<>>
    /\ app_count = <<>>
    /\ sinks = <<>>
    /\ apps = <<>>
    /\ out = <<>>
    /\ reads = {}
    /\ sinkIters = 0
    /\ appIters = 0
    /\ sinkBroke = FALSE
    /\ appBroke = FALSE
    /\ raised = FALSE

---------------------------------------------------------------------------
(* parse_shared_memory, one action per branch of its control flow.         *)

TooSmallMsg == "File too small to contain valid data"
NoSinkMsg   == "No sink data found"
NoAppMsg    == "No app data found"
TotalMsg    == "Total size"
ErrorMsg    == "Error parsing shared memory"
SinkLine    == "  - sink"
AppLine     == "  - app"

\* lines 112-113: an exception raised while `rd` was being read ends the
\* parse with the error report, after whatever `lines` were printed.
Except(rd, lines) ==
    /\ pc' = "done"
    /\ raised' = TRUE
    /\ reads' = reads \cup rd
    /\ out' = out \o lines \o <<ErrorMsg>>

\* lines 29-31
TooSmall ==
    /\ pc = "start"
    /\ ~HeaderFits(data)
    /\ out' = Append(out, TooSmallMsg)
    /\ pc' = "done"
    /\ UNCHANGED <<data, built, offset, header, sink_count, app_count, sinks,
                   apps, reads, sinkIters, appIters, sinkBroke, appBroke, raised>>

\* lines 34-45, the timestamp being one datetime can show
ParseHeader ==
    /\ pc = "start"
    /\ HeaderFits(data)
    /\ \E h \in {ReadHeader(data)} :
         /\ ~h.exc
         /\ TimestampFormats(h.timestamp)
         /\ header' = <<h.version, h.generation, h.timestamp>>
         /\ offset' = h.offset
         /\ reads' = reads \cup h.reads
    /\ out' = out \o <<"Shared Memory Cache Debug", "Version", "Generation",
                       "Timestamp", "">>
    /\ pc' = "sink_count"
    /\ UNCHANGED <<data, built, sink_count, app_count, sinks, apps, sinkIters,
                   appIters, sinkBroke, appBroke, raised>>

\* lines 34-42 and 112-113: datetime.fromtimestamp raises on line 42, after
\* the title, version and generation were printed
HeaderError ==
    /\ pc = "start"
    /\ HeaderFits(data)
    /\ \E h \in {ReadHeader(data)} :
         /\ h.exc \/ ~TimestampFormats(h.timestamp)
         /\ header' = IF h.exc THEN <<>>
                      ELSE <<h.version, h.generation, h.timestamp>>
         /\ Except(h.reads,
                   IF h.exc THEN <<>>
                   ELSE <<"Shared Memory Cache Debug", "Version", "Generation">>)
    /\ UNCHANGED <<data, built, offset, sink_count, app_count, sinks, apps,
                   sinkIters, appIters, sinkBroke, appBroke>>

\* lines 48-50
NoSinkData ==
    /\ pc = "sink_count"
    /\ ~SinkCountFits(data, offset)
    /\ out' = Append(out, NoSinkMsg)
    /\ pc' = "done"
    /\ UNCHANGED <<data, built, offset, header, sink_count, app_count, sinks,
                   apps, reads, sinkIters, appIters, sinkBroke, appBroke, raised>>

\* lines 52-55
ReadSinkCount ==
    /\ pc = "sink_count"
    /\ SinkCountFits(data, offset)
    /\ \E r \in {ReadCount(data, offset)} :
         IF r.exc
         THEN Except(r.reads, <<>>) /\ UNCHANGED <<sink_count, offset>>
         ELSE /\ sink_count' = r.count
              /\ offset' = r.offset
              /\ reads' = reads \cup r.reads
              /\ out' = Append(out, "Sinks")
              /\ pc' = "sinks"
              /\ UNCHANGED raised
    /\ UNCHANGED <<data, built, header, app_count, sinks, apps, sinkIters,
                   appIters, sinkBroke, appBroke>>

\* lines 56-73: an iteration that prints its sink
SinkIterOk ==
    /\ pc = "sinks"
    /\ InRange(sinkIters, sink_count)
    /\ \E r \in {ParseSink(data, offset)} :
         /\ r.ok
         /\ sinks' = Append(sinks, r.rec)
         /\ offset' = r.offset
         /\ reads' = reads \cup r.reads
    /\ sinkIters' = sinkIters + 1
    /\ out' = Append(out, SinkLine)
    /\ UNCHANGED <<data, built, pc, header, sink_count, app_count, apps,
                   appIters, sinkBroke, appBroke, raised>>

\* lines 56-62 and 75: the iteration that breaks; the cursor keeps what
\* read_string returned
SinkIterBreak ==
    /\ pc = "sinks"
    /\ InRange(sinkIters, sink_count)
    /\ \E r \in {ParseSink(data, offset)} :
         /\ ~r.ok
         /\ offset' = r.offset
         /\ IF r.exc
            THEN Except(r.reads, <<>>) /\ UNCHANGED sinkBroke
            ELSE /\ reads' = reads \cup r.reads
                 /\ sinkBroke' = TRUE
                 /\ out' = Append(out, "")
                 /\ pc' = "app_count"
                 /\ UNCHANGED raised
    /\ sinkIters' = sinkIters + 1
    /\ UNCHANGED <<data, built, header, sink_count, app_count, sinks, apps,
                   appIters, appBroke>>

\* lines 56 and 75: range(sink_count) is exhausted
SinkLoopEnd ==
    /\ pc = "sinks"
    /\ ~InRange(sinkIters, sink_count)
    /\ out' = Append(out, "")
    /\ pc' = "app_count"
    /\ UNCHANGED <<data, built, offset, header, sink_count, app_count, sinks,
                   apps, reads, sinkIters, appIters, sinkBroke, appBroke, raised>>

\* lines 78-80
NoAppData ==
    /\ pc = "app_count"
    /\ ~AppCountFits(data, offset)
    /\ out' = Append(out, NoAppMsg)
    /\ pc' = "done"
    /\ UNCHANGED <<data, built, offset, header, sink_count, app_count, sinks,
                   apps, reads, sinkIters, appIters, sinkBroke, appBroke, raised>>

\* lines 82-85
ReadAppCount ==
    /\ pc = "app_count"
    /\ AppCountFits(data, offset)
    /\ \E r \in {ReadCount(data, offset)} :
         IF r.exc
         THEN Except(r.reads, <<>>) /\ UNCHANGED <<app_count, offset>>
         ELSE /\ app_count' = r.count
              /\ offset' = r.offset
              /\ reads' = reads \cup r.reads
              /\ out' = Append(out, "Apps")
              /\ pc' = "apps"
              /\ UNCHANGED raised
    /\ UNCHANGED <<data, built, header, sink_count, sinks, apps, sinkIters,
                   appIters, sinkBroke, appBroke>>

\* lines 86-105: an iteration that prints its app
AppIterOk ==
    /\ pc = "apps"
    /\ InRange(appIters, app_count)
    /\ \E r \in {ParseApp(data, offset)} :
         /\ r.ok
         /\ apps' = Append(apps, r.rec)
         /\ offset' = r.offset
         /\ reads' = reads \cup r.reads
    /\ appIters' = appIters + 1
    /\ out' = Append(out, AppLine)
    /\ UNCHANGED <<data, built, pc, header, sink_count, app_count, sinks,
                   sinkIters, sinkBroke, appBroke, raised>>

\* lines 86-98 and 107-108: the iteration that breaks, then the total
AppIterBreak ==
    /\ pc = "apps"
    /\ InRange(appIters, app_count)
    /\ \E r \in {ParseApp(data, offset)} :
         /\ ~r.ok
         /\ offset' = r.offset
         /\ IF r.exc
            THEN Except(r.reads, <<>>) /\ UNCHANGED appBroke
            ELSE /\ reads' = reads \cup r.reads
                 /\ appBroke' = TRUE
                 /\ out' = out \o <<"", TotalMsg>>
                 /\ pc' = "done"
                 /\ UNCHANGED raised
    /\ appIters' = appIters + 1
    /\ UNCHANGED <<data, built, header, sink_count, app_count, sinks, apps,
                   sinkIters, sinkBroke>>

\* lines 86 and 107-108: range(app_count) is exhausted, then the total
AppLoopEnd ==
    /\ pc = "apps"
    /\ ~InRange(appIters, app_count)
    /\ out' = out \o <<"", TotalMsg>>
    /\ pc' = "done"
    /\ UNCHANGED <<data, built, offset, header, sink_count, app_count, sinks,
                   apps, reads, sinkIters, appIters, sinkBroke, appBroke, raised>>

Next ==
    \/ TooSmall
    \/ ParseHeader
    \/ HeaderError
    \/ NoSinkData
    \/ ReadSinkCount
    \/ SinkIterOk
    \/ SinkIterBreak
    \/ SinkLoopEnd
    \/ NoAppData
    \/ ReadAppCount
    \/ AppIterOk
    \/ AppIterBreak
    \/ AppLoopEnd

Spec == Init /\ [][Next]_vars

\* The interpreter runs the script to its end: a step that can be taken is.
FairSpec == Spec /\ WF_vars(Next)

---------------------------------------------------------------------------
(* Vocabulary of the properties.                                           *)

Done == pc = "done"

Size == Len(data)

Full == Len(Assemble(built))

NSinks == Len(built.sinks)

NApps == Len(built.apps)

\* What a written record decodes to when it is read back.
ExpSink(s) ==
    [name |-> s.name.str, id |-> s.id, volume |-> s.volume, muted |-> s.mbyte = 1]

ExpApp(a) ==
    [name |-> a.name.str, current_sink |-> a.current_sink.str,
     active |-> a.abyte = 1]

ExpSinks(k) == [j \in 1..k |-> ExpSink(built.sinks[j])]

ExpApps(k) == [j \in 1..k |-> ExpApp(built.apps[j])]

\* Every record was written by a producer from strings and booleans.
SinksWf == \A j \in 1..NSinks : built.sinks[j].name.wf /\ built.sinks[j].mbyte \in {0, 1}

AppsWf ==
    \A j \in 1..NApps :
        /\ built.apps[j].name.wf
        /\ built.apps[j].current_sink.wf
        /\ built.apps[j].abyte \in {0, 1}

\* The file is the assembled snapshot: true counts, nothing cut, no padding.
Whole == built.exact /\ Size = Full

\* The written sink records that lie entirely inside the file.
SinksInside == Cardinality({k \in 1..NSinks : SinkEnd(built, k) <= Size})

\* The record lines among the printed lines.
RecordLines == SelectSeq(out, LAMBDA l : l \in {SinkLine, AppLine})

LastLine == out[Len(out)]

\* The sink loop is over.
PastSinks == pc \in {"app_count", "apps"} \/ (Done /\ sink_count # <<>>)

\* The parse ran to the total of line 108.
ReachedTotal == Done /\ LastLine = TotalMsg

Range(q) == {q[j] : j \in 1..Len(q)}

\* The count the decoder unpacked equals the number k.
CountIs(c, k) == c = <<k, 0>>

---------------------------------------------------------------------------
(* C1 *)

\* C1: every byte index the decoder asks of the buffer lies in 0..len-1 and
\* no unpack or index runs past the end (the parse raises no struct.error
\* or IndexError: the one exception it can raise is the timestamp's, before
\* any count is read); a sink or app loop that emitted fewer records than
\* its count left through a break, on the first record it could not
\* complete.
C1_ReadsInBounds ==
    /\ \A i \in reads : 0 <= i /\ i < Size
    /\ raised => (sink_count = <<>> /\ header # <<>>
                    /\ ~TimestampFormats(header[3]))
    /\ (PastSinks /\ ~CountIs(sink_count, Len(sinks)))
           => (sinkBroke /\ sinkIters = Len(sinks) + 1)
    /\ (Done /\ app_count # <<>> /\ ~CountIs(app_count, Len(apps)))
           => (appBroke /\ appIters = Len(apps) + 1)

\* A count of 2^32-1 over a real sink section: the loop ran into the app
\* section, broke, and the parse read up to the buffer's last byte.
C1_Witness ==
    /\ Done
    /\ built.declSinks = U32Max
    /\ sinkBroke
    /\ Len(sinks) >= 1
    /\ (Size - 1) \in reads

---------------------------------------------------------------------------
(* C2 *)

\* C2: a buffer assembled as header, sink_count = N, N sink records,
\* app_count = M, M app records decodes to exactly the N sinks then the M
\* apps, in order, every field as written.
C2_RoundTrip ==
    (Done /\ Whole /\ SinksWf /\ AppsWf)
        => /\ sinks = ExpSinks(NSinks)
           /\ apps = ExpApps(NApps)
           /\ RecordLines = [j \in 1..(NSinks + NApps) |->
                                 IF j <= NSinks THEN SinkLine ELSE AppLine]

\* The same round trip for the headers whose timestamp datetime can show:
\* this much of C2 holds.
RoundTripWhenTimestampFormats ==
    TimestampFormats(built.timestamp) => C2_RoundTrip

---------------------------------------------------------------------------
(* C3 *)

\* A valid snapshot of sinks cut inside its sink section: true counts,
\* names written from strings, and the cut at 36 <= p < the end of the last
\* sink record.
CutInSinks ==
    /\ built.exact
    /\ SinksWf
    /\ 36 <= Size
    /\ Size < SinkEnd(built, NSinks)

\* C3: decoding a valid snapshot cut at p inside its sink section emits
\* exactly the sinks whose records lie entirely before p, in order and with
\* their written values, and nothing built from the partial record.
C3_TruncationMonotone ==
    CutInSinks
        => /\ Len(sinks) <= SinksInside
           /\ sinks = ExpSinks(Len(sinks))
           /\ (Done \/ PastSinks) => sinks = ExpSinks(SinksInside)

\* The same cuts for the headers whose timestamp datetime can show: this
\* much of C3 holds.
TruncationMonotoneWhenTimestampFormats ==
    TimestampFormats(built.timestamp) => C3_TruncationMonotone

---------------------------------------------------------------------------
(* C4 *)

\* Both loops ran through their counts and the total was printed.
CleanDecode == ReachedTotal /\ ~sinkBroke /\ ~appBroke

\* C4 as stated: on a clean decode the final cursor equals len(buffer).
C4_ConsumedAll == CleanDecode => offset = Size

\* C4 as amended: on a clean decode the final cursor is the end of the last
\* app record, never past len(buffer); for a snapshot with true counts that
\* is the end of the assembled snapshot, whatever padding follows it.
C4_ConsumedSnapshot ==
    CleanDecode => (offset <= Size /\ (built.exact => offset = Full))

\* A clean decode of a snapshot with a sink and an app.
C4_Witness == CleanDecode /\ built.exact /\ NSinks >= 1 /\ NApps >= 1

---------------------------------------------------------------------------
(* C5 *)

\* The parse went through the app loop.
ThroughApps == Done /\ app_count # <<>> /\ ~raised

CutShort == sinkBroke \/ appBroke

\* C5 as stated: at the end of the app loop the final outcome tells a
\* truncated input from a complete one: the report that ends a complete
\* decode does not end one in which a record was cut short.
C5_OutcomeDistinguishes ==
    ThroughApps => (LastLine = TotalMsg <=> ~CutShort)

\* C5 as amended: the final report is the same 'Total size' line whether or
\* not a record was cut short; a cut shows only in a section listing fewer
\* records than the count in its heading, which happens exactly when that
\* loop broke.
C5_SameReport ==
    ThroughApps
        => /\ LastLine = TotalMsg
           /\ sinkBroke <=> ~CountIs(sink_count, Len(sinks))
           /\ appBroke <=> ~CountIs(app_count, Len(apps))

\* A decode that lost a sink record and still ended with the total.
C5_Witness == ThroughApps /\ sinkBroke /\ Len(sinks) >= 1

---------------------------------------------------------------------------
(* C6 *)

\* The buffer ends right after a sink-count field that announces sinks.
EndsAfterSinkCount ==
    Size = 36 /\ UnpackU32(Slice(data, 32, 36)) # <<0, 0>>

\* C6 as stated: no sink, the 'No sink data found' outcome, and the app
\* section not attempted (no app count read, no app, no app diagnostic).
C6_NoSinkDataReported ==
    (Done /\ EndsAfterSinkCount)
        => /\ sinks = <<>>
           /\ LastLine = NoSinkMsg
           /\ app_count = <<>>
           /\ apps = <<>>
           /\ NoAppMsg \notin Range(out)

\* C6 as amended: no sink and no app are emitted and the app count is not
\* read, but 'No sink data found' is never printed: the decoder reads the
\* count, prints the 'Sinks' heading, breaks in the first iteration and ends
\* on 'No app data found' (or, the header's timestamp being one datetime
\* cannot show, on the error report before the count is read).
C6_NoAppDataReported ==
    (Done /\ EndsAfterSinkCount)
        => /\ sinks = <<>>
           /\ apps = <<>>
           /\ app_count = <<>>
           /\ NoSinkMsg \notin Range(out)
           /\ IF raised
              THEN LastLine = ErrorMsg /\ sink_count = <<>>
              ELSE /\ LastLine = NoAppMsg
                   /\ sink_count = UnpackU32(Slice(data, 32, 36))
                   /\ "Sinks" \in Range(out)
                   /\ sinkBroke
                   /\ sinkIters = 1

C6_Witness == Done /\ EndsAfterSinkCount /\ LastLine = NoAppMsg

---------------------------------------------------------------------------
(* C7 *)

\* C7: a buffer shorter than 32 bytes gets the 'File too small' report and
\* nothing else: no header field, no count, no record, no byte read, the
\* cursor never set.
C7_TooSmall ==
    Size < 32
        => /\ header = <<>>
           /\ sink_count = <<>>
           /\ app_count = <<>>
           /\ sinks = <<>>
           /\ apps = <<>>
           /\ reads = {}
           /\ offset = 0
           /\ ~raised
           /\ out = IF Done THEN <<TooSmallMsg>> ELSE <<>>

C7_Witness == Done /\ Size = 31

---------------------------------------------------------------------------
(* C8 *)

\* The records emitted so far that were parsed from written records: sink
\* k <= N is parsed where the producer put it, and so is app k <= M once
\* the sink loop ran through a true count.
SinksRead == Min(Len(sinks), NSinks)

AppsRead ==
    IF CountIs(built.declSinks, NSinks) /\ ~sinkBroke
    THEN Min(Len(apps), NApps) ELSE 0

\* C8 as stated: a string whose payload is all present decodes whatever its
\* bytes, the cursor moving by 1 + L, each invalid sequence becoming a
\* replacement marker in the decoded string.
C8_InvalidBytesReplaced ==
    /\ \A k \in 1..SinksRead :
         sinks[k].name = Utf8Decode(built.sinks[k].name.pay, "replace")
    /\ \A k \in 1..AppsRead :
         /\ apps[k].name = Utf8Decode(built.apps[k].name.pay, "replace")
         /\ apps[k].current_sink
                = Utf8Decode(built.apps[k].current_sink.pay, "replace")

\* C8 as amended: a string whose payload is all present decodes whatever
\* its bytes, the cursor moving by 1 + L, each invalid sequence being
\* dropped from the decoded string without a marker: the string is what
\* CPython's errors='ignore' returns, and holds no U+FFFD the payload does
\* not spell.
C8_InvalidBytesDropped ==
    /\ \A k \in 1..SinksRead :
         /\ sinks[k].name = built.sinks[k].name.str
         /\ ReplacementChar \notin Range(sinks[k].name)
    /\ (pc = "sinks" /\ Len(sinks) <= NSinks)
           => offset = SinkEnd(built, Len(sinks))
    /\ \A k \in 1..AppsRead :
         /\ apps[k].name = built.apps[k].name.str
         /\ apps[k].current_sink = built.apps[k].current_sink.str
         /\ ReplacementChar \notin Range(apps[k].name \o apps[k].current_sink)
    /\ (pc = "apps" /\ AppsRead = Len(apps) /\ CountIs(built.declSinks, NSinks)
          /\ ~sinkBroke)
           => offset = SinkEnd(built, NSinks) + 4
                           + Len(PackApps(SubSeq(built.apps, 1, Len(apps))))

\* A sink and an app whose names hold invalid sequences were both decoded.
C8_Witness ==
    /\ Done
    /\ \E k \in 1..SinksRead : ~built.sinks[k].name.wf
    /\ \E k \in 1..AppsRead : ~built.apps[k].name.wf

---------------------------------------------------------------------------
(* C9 *)

\* C9: when the sink loop stops early on a truncated record, no app record
\* is emitted and no app count is taken from the bytes of that record.
C9_NoAppsAfterBrokenSinks ==
    (built.exact /\ Size < SinkEnd(built, NSinks) /\ sinkBroke)
        => (app_count = <<>> /\ apps = <<>>)

---------------------------------------------------------------------------
(* C10 *)

\* The cursor stays inside the buffer, each loop runs at most one iteration
\* that emits nothing, and the records emitted are paid for in bytes.
C10_Bounded ==
    /\ 0 <= offset /\ offset <= Size
    /\ sinkIters <= Len(sinks) + 1
    /\ appIters <= Len(apps) + 1
    /\ sinkIters = Len(sinks) + 1 => sinkBroke \/ raised
    /\ appIters = Len(apps) + 1 => appBroke \/ raised
    /\ 10 * Len(sinks) + 3 * Len(apps) <= Size

\* The cursor never goes back; a sink printed costs at least 10 bytes, an
\* app at least 3.
C10_Advance ==
    /\ offset' >= offset
    /\ Len(sinks') > Len(sinks) => offset' >= offset + 10
    /\ Len(apps') > Len(apps) => offset' >= offset + 3

\* C10: decoding ends for every buffer and every count, the work bounded by
\* the buffer's length and not by the counts.
C10_Terminates ==
    []C10_Bounded /\ [][C10_Advance]_vars /\ <>Done

\* A count of 2^32-1 in each section, and a parse that is over after a few
\* records.
C10_Witness ==
    /\ Done
    /\ U32Max \in {sink_count, app_count}
    /\ Len(sinks) >= 1
    /\ app_count # <<>>

=============================================================================
